---- MODULE Spec2Model ----
(***************************************************************************)
(* Model of src/src/polymarket_mcp/server.py: the tool registry            *)
(* (list_tools), the dispatcher (handle_call_tool), the Polymarket         *)
(* extractor (scrape_polymarket) and the headline formatter                *)
(* (format_news_headlines).                                                *)
(*                                                                         *)
(* Python values are modelled as follows.  A dict is a function from its   *)
(* keys (strings) to its values; d.get(k, default) is Get(d, k, default).  *)
(* Where the code can meet a value of more than one Python type (the tool  *)
(* arguments, the decoded news response, an article, an article's source)  *)
(* the value is a record [kind, v] with kind in "none", "str", "int",      *)
(* "list", "dict".  A str is a TLA+ string and is built by concatenation   *)
(* as the code builds it.  An exception is a record [type, msg] where msg  *)
(* is str(e).                                                              *)
(***************************************************************************)
EXTENDS Integers, Sequences, FiniteSets, TLC

VARIABLES
    api_key,    \* os.getenv("NEWSAPI_KEY"): PyNone when the variable is unset
    pc,         \* "idle": waiting for a request; "done": a handler has ended
    request,    \* the request being served: "none", "list_tools", "call_tool"
    name,       \* handle_call_tool's name argument
    arguments,  \* handle_call_tool's arguments argument
    outcome,    \* how the handler ended: "none", "returned" or "raised"
    result,     \* the list the handler returned
    exc,        \* the exception that left the handler
    results,    \* handle_call_tool's local results: what scrape_polymarket returned
    http,       \* the outbound HTTP requests the handler issued, in order
    page,       \* what the GET of the Polymarket homepage meets
    response    \* what the GET of a NewsAPI endpoint meets

vars == <<api_key, pc, request, name, arguments, outcome, result, exc, results,
          http, page, response>>

----------------------------------------------------------------------------
(* Bounds of the model. *)

\* the longest events sequence a page carries
MaxEvents == 22

----------------------------------------------------------------------------
(* Python values. *)

PyNone == [kind |-> "none", v |-> ""]

PyStr(s) == [kind |-> "str", v |-> s]

PyInt(n) == [kind |-> "int", v |-> n]

PyList(l) == [kind |-> "list", v |-> l]

PyDict(d) == [kind |-> "dict", v |-> d]

EmptyDict == [k \in {} |-> ""]

\* d.get(k, default) on a dict d
Get(d, k, default) == IF k \in DOMAIN d THEN d[k] ELSE default

\* d with d[k] = val added or replaced
Put(d, k, val) == [x \in DOMAIN d \cup {k} |-> IF x = k THEN val ELSE d[x]]

\* bool(x) of a Python value
Truthy(x) ==
    CASE x.kind = "none" -> FALSE
      [] x.kind = "str"  -> x.v # ""
      [] x.kind = "int"  -> x.v # 0
      [] x.kind = "list" -> x.v # <<>>
      [] x.kind = "dict" -> DOMAIN x.v # {}

Min(a, b) == IF a <= b THEN a ELSE b

Digits == <<"0", "1", "2", "3", "4", "5", "6", "7", "8", "9">>

RECURSIVE IntStr(_)
\* str(n) of a natural number n
IntStr(n) == IF n < 10 THEN Digits[n + 1]
             ELSE IntStr(n \div 10) \o Digits[(n % 10) + 1]

\* str(x) of a Python value, as an f-string renders it
Str(x) ==
    CASE x.kind = "none" -> "None"
      [] x.kind = "str"  -> x.v
      [] x.kind = "int"  -> IntStr(x.v)
      [] x.kind = "list" -> IF x.v = <<>> THEN "[]" ELSE "[...]"
      [] x.kind = "dict" -> IF DOMAIN x.v = {} THEN "{}" ELSE "{...}"

RECURSIVE Join(_, _)
\* sep.join(parts)
Join(sep, parts) ==
    IF parts = <<>> THEN ""
    ELSE IF Len(parts) = 1 THEN parts[1]
    ELSE parts[1] \o sep \o Join(sep, Tail(parts))

\* types.TextContent(type="text", text=t)
TextContent(t) == [type |-> "text", text |-> t]

NoException == [type |-> "", msg |-> ""]

Exception(t, m) == [type |-> t, msg |-> m]

\* a function that returned value val
Returned(val) == [raised |-> FALSE, value |-> val, exc |-> NoException]

\* a function that an exception left
Raised(e) == [raised |-> TRUE, value |-> <<>>, exc |-> e]

----------------------------------------------------------------------------
(* scrape_polymarket *)

BASE_URL == "https://polymarket.com"

\* events[:20]
MaxMarkets == 20

\* the keys and indices of data[...][...]... down to the events
EventsPath == <<"props", "pageProps", "dehydratedState", "queries", "0",
                "state", "data", "pages", "0", "events">>

\* the exception data[...] raises when segment i is absent: KeyError for a
\* key (str(e) is the repr of the key), IndexError for an index
PathError(i) ==
    IF EventsPath[i] = "0"
    THEN Exception("IndexError", "list index out of range")
    ELSE Exception("KeyError", "'" \o EventsPath[i] \o "'")

\* for i in range(min(len(outcomes), len(prices)))
OutcomeProbs(outcomes, prices) ==
    [i \in 1..Min(Len(outcomes), Len(prices)) |->
        [outcome |-> outcomes[i], probability |-> prices[i]]]

\* one iteration of the loop for an event whose markets array is not empty
Summary(event) ==
    LET title       == Get(event, "title", "")
        slug        == Get(event, "slug", "")
        url         == BASE_URL \o "/market/" \o slug
        market_info == Get(event, "markets", <<>>)[1]
        outcomes    == Get(market_info, "outcomes", <<>>)
        prices      == Get(market_info, "outcomePrices", <<>>)
    IN  [title |-> title, url |-> url, outcomes |-> OutcomeProbs(outcomes, prices)]

\* the slice taken one event too long
FirstEventsOffByOne(events) == SubSeq(events, 1, Min(Len(events), MaxMarkets + 1))

\* events[:20]
FirstEvents(events) == SubSeq(events, 1, Min(Len(events), MaxMarkets))

\* the loop over events[:20]: event.get("markets", [])[0] raises IndexError
\* on the first event whose markets array is empty or absent, and the
\* exception leaves the loop and the function
ScrapeLoop(events) ==
    LET first == FirstEvents(events)
    IN  IF \E i \in 1..Len(first) : Get(first[i], "markets", <<>>) = <<>>
        THEN Raised(Exception("IndexError", "list index out of range"))
        ELSE Returned([i \in 1..Len(first) |-> Summary(first[i])])

\* scrape_polymarket() on the page the GET of BASE_URL meets
scrape_polymarket(pg) ==
    IF pg.fetch = "connection_error"
    THEN Raised(Exception("ConnectionError",
             "HTTPSConnectionPool(host='polymarket.com', port=443): Max retries exceeded with url: /"))
    ELSE IF pg.fetch = "http_error"
    THEN Raised(Exception("HTTPError",
             "503 Server Error: Service Unavailable for url: https://polymarket.com/"))
    ELSE IF pg.script = "absent"
    THEN Raised(Exception("AttributeError", "'NoneType' object has no attribute 'string'"))
    ELSE IF pg.script = "no_string"
    THEN Raised(Exception("TypeError",
             "the JSON object must be str, bytes or bytearray, not NoneType"))
    ELSE IF pg.json = "malformed"
    THEN Raised(Exception("JSONDecodeError", "Expecting value: line 1 column 1 (char 0)"))
    ELSE IF pg.missing # 0
    THEN Raised(PathError(pg.missing))
    ELSE ScrapeLoop(pg.events)

\* json.dumps of a str (the model's strings need no escaping)
DumpStr(s) == "\"" \o s \o "\""

\* json.dumps of one {"outcome": ..., "probability": ...}
DumpOutcome(o) ==
    "{\"outcome\": " \o DumpStr(o.outcome) \o ", \"probability\": "
        \o DumpStr(o.probability) \o "}"

\* json.dumps of one element of results
DumpSummary(s) ==
    "{\"title\": " \o DumpStr(s.title) \o ", \"url\": " \o DumpStr(s.url)
        \o ", \"outcomes\": ["
        \o Join(", ", [i \in 1..Len(s.outcomes) |-> DumpOutcome(s.outcomes[i])])
        \o "]}"

\* json.dumps(results)
DumpResults(res) ==
    "[" \o Join(", ", [i \in 1..Len(res) |-> DumpSummary(res[i])]) \o "]"

----------------------------------------------------------------------------
(* list_tools *)

\* types.Tool(name, description, inputSchema): the schema is kept as its
\* property names, the defaults it declares and its required names
Tool(n, descr, props, defaults, required) ==
    [name |-> n, description |-> descr,
     inputSchema |-> [properties |-> props, defaults |-> defaults, required |-> required]]

\* the registry with the third tool declared under another name
list_tools_renamed ==
    << Tool("scrape-polymarket",
            "Scrape latest prediction markets from Polymarket homepage",
            {}, EmptyDict, {}),
       Tool("get-news-headlines",
            "Get top news headlines using NewsAPI.org",
            {"query", "language", "pageSize"},
            [language |-> PyStr("en"), pageSize |-> PyInt(5)],
            {"query"}),
       Tool("search-news",
            "Get news articles using NewsAPI.org's everything endpoint (broader search).",
            {"query", "language", "pageSize", "from", "sortBy"},
            [language |-> PyStr("en"), pageSize |-> PyInt(5), sortBy |-> PyStr("publishedAt")],
            {"query"}) >>

list_tools ==
    << Tool("scrape-polymarket",
            "Scrape latest prediction markets from Polymarket homepage",
            {}, EmptyDict, {}),
       Tool("get-news-headlines",
            "Get top news headlines using NewsAPI.org",
            {"query", "language", "pageSize"},
            [language |-> PyStr("en"), pageSize |-> PyInt(5)],
            {"query"}),
       Tool("get-news-everything",
            "Get news articles using NewsAPI.org's everything endpoint (broader search).",
            {"query", "language", "pageSize", "from", "sortBy"},
            [language |-> PyStr("en"), pageSize |-> PyInt(5), sortBy |-> PyStr("publishedAt")],
            {"query"}) >>

----------------------------------------------------------------------------
(* format_news_headlines *)

\* type(x).__name__
TypeName(x) == IF x.kind = "none" THEN "NoneType" ELSE x.kind

\* AttributeError of x.get on a value that is no dict
NoGet(x) ==
    Exception("AttributeError", "'" \o TypeName(x) \o "' object has no attribute 'get'")

\* the f-string appended for one article that is a dict with a dict source
ArticleBlock(article) ==
    LET source == Get(article.v, "source", PyDict(EmptyDict))
    IN  "Title: " \o Str(Get(article.v, "title", PyStr("N/A"))) \o "\n"
        \o "Source: " \o Str(Get(source.v, "name", PyStr("N/A"))) \o "\n"
        \o "Published: " \o Str(Get(article.v, "publishedAt", PyStr("N/A"))) \o "\n"
        \o "URL: " \o Str(Get(article.v, "url", PyStr("N/A"))) \o "\n---\n"

\* the exception one article raises in the loop, NoException when none
ArticleError(article) ==
    IF article.kind # "dict" THEN NoGet(article)
    ELSE LET source == Get(article.v, "source", PyDict(EmptyDict))
         IN  IF source.kind # "dict" THEN NoGet(source) ELSE NoException

\* the for loop over articles and the join: articles is truthy here
FormatArticles(articles) ==
    IF articles.kind = "int"
    THEN Raised(Exception("TypeError", "'int' object is not iterable"))
    ELSE IF articles.kind # "list"
    THEN \* iterating a str or a dict yields str elements
         Raised(NoGet(PyStr("")))
    ELSE IF \E i \in 1..Len(articles.v) : ArticleError(articles.v[i]) # NoException
    THEN LET i == CHOOSE j \in 1..Len(articles.v) :
                    /\ ArticleError(articles.v[j]) # NoException
                    /\ \A k \in 1..(j - 1) : ArticleError(articles.v[k]) = NoException
         IN  Raised(ArticleError(articles.v[i]))
    ELSE Returned(Join("\n", <<"Top News Headlines:\n">>
                     \o [i \in 1..Len(articles.v) |-> ArticleBlock(articles.v[i])]))

\* the policy with the articles test placed before the status test
FormatBodyArticlesFirst(news_data) ==
    IF ~Truthy(news_data) \/ news_data.kind # "dict"
    THEN Returned("No news data available.")
    ELSE LET articles == Get(news_data.v, "articles", PyList(<<>>))
         IN  IF ~Truthy(articles)
             THEN Returned("No news articles found.")
             ELSE IF Get(news_data.v, "status", PyNone) # PyStr("ok")
             THEN Returned("NewsAPI error: "
                             \o Str(Get(news_data.v, "message", PyStr("Unknown error"))))
             ELSE FormatArticles(articles)

\* the body of the try block
FormatBody(news_data) ==
    IF ~Truthy(news_data) \/ news_data.kind # "dict"
    THEN Returned("No news data available.")
    ELSE IF Get(news_data.v, "status", PyNone) # PyStr("ok")
    THEN Returned("NewsAPI error: "
                    \o Str(Get(news_data.v, "message", PyStr("Unknown error"))))
    ELSE LET articles == Get(news_data.v, "articles", PyList(<<>>))
         IN  IF ~Truthy(articles)
             THEN Returned("No news articles found.")
             ELSE FormatArticles(articles)

\* format_news_headlines(news_data): except Exception turns a raise into text
format_news_headlines(news_data) ==
    LET r == FormatBody(news_data)
    IN  IF r.raised THEN "Error formatting news: " \o r.exc.msg ELSE r.value

----------------------------------------------------------------------------
(* handle_call_tool *)

\* one outbound GET
HttpGet(url, params) == [url |-> url, params |-> params]

\* how a handler ended: the list it returned or the exception that left
\* it, its local results and the requests it issued
Ended(r, res, reqs) ==
    [raised |-> r.raised, value |-> r.value, exc |-> r.exc, results |-> res, http |-> reqs]

\* arguments.get(k, default): AttributeError when arguments is None is
\* raised by the callers below before any use of this
ArgGet(args, k, default) == Get(args.v, k, default)

\* the body of resp = await client_http.get(...); news_data = resp.json();
\* format_news_headlines(news_data); return [TextContent]
NewsCall(url, params, resp) ==
    LET reqs == <<HttpGet(url, params)>>
    IN  IF resp.net = "connect_error"
        THEN Ended(Raised(Exception("ConnectError", "All connection attempts failed")),
                   <<>>, reqs)
        ELSE IF resp.body = "not_json"
        THEN Ended(Raised(Exception("JSONDecodeError",
                       "Expecting value: line 1 column 1 (char 0)")), <<>>, reqs)
        ELSE Ended(Returned(<<TextContent(format_news_headlines(resp.data))>>), <<>>, reqs)

\* the scrape branch without its try/except
ScrapeBranchUncaught(pg) ==
    LET r    == scrape_polymarket(pg)
        reqs == <<HttpGet(BASE_URL, EmptyDict)>>
    IN  IF r.raised
        THEN Ended(Raised(r.exc), <<>>, reqs)
        ELSE Ended(Returned(<<TextContent(DumpResults(r.value))>>), r.value, reqs)

\* the branch name == "scrape-polymarket"
ScrapeBranch(pg) ==
    LET r    == scrape_polymarket(pg)
        reqs == <<HttpGet(BASE_URL, EmptyDict)>>
    IN  IF r.raised
        THEN Ended(Returned(<<TextContent("Error scraping Polymarket: " \o r.exc.msg)>>),
                   <<>>, reqs)
        ELSE Ended(Returned(<<TextContent(DumpResults(r.value))>>), r.value, reqs)

\* the branch name == "get-news-headlines"
HeadlinesBranch(args, key, resp) ==
    IF args.kind # "dict"
    THEN Ended(Raised(NoGet(args)), <<>>, <<>>)
    ELSE LET query     == ArgGet(args, "query", PyNone)
             language  == ArgGet(args, "language", PyStr("en"))
             page_size == ArgGet(args, "pageSize", PyInt(5))
         IN  IF ~Truthy(key)
             THEN Ended(Returned(<<TextContent("Missing NEWSAPI_KEY in environment.")>>),
                        <<>>, <<>>)
             ELSE NewsCall("https://newsapi.org/v2/top-headlines",
                           [q |-> query, language |-> language,
                            pageSize |-> page_size, apiKey |-> key],
                           resp)

\* from and to copied whenever the caller passes them, empty or not
WithDatesUnconditional(args, params) ==
    LET p1 == IF "from" \in DOMAIN args.v
              THEN Put(params, "from", args.v["from"]) ELSE params
    IN  IF "to" \in DOMAIN args.v
        THEN Put(p1, "to", args.v["to"]) ELSE p1

\* params after the two conditional assignments of from and to
WithDates(args, params) ==
    LET p1 == IF Truthy(ArgGet(args, "from", PyNone))
              THEN Put(params, "from", args.v["from"]) ELSE params
    IN  IF Truthy(ArgGet(args, "to", PyNone))
        THEN Put(p1, "to", args.v["to"]) ELSE p1

\* the branch name == "get-news-everything"
EverythingBranch(args, key, resp) ==
    IF args.kind # "dict"
    THEN Ended(Raised(NoGet(args)), <<>>, <<>>)
    ELSE LET query     == ArgGet(args, "query", PyNone)
             sort_by   == ArgGet(args, "sortBy", PyStr("popularity"))
             page_size == ArgGet(args, "pageSize", PyInt(100))
             pg        == ArgGet(args, "page", PyInt(1))
             params    == [q |-> query, apiKey |-> key, sortBy |-> sort_by,
                           pageSize |-> page_size, page |-> pg]
         IN  NewsCall("https://newsapi.org/v2/everything", WithDates(args, params), resp)

\* an unknown name answered with an exception instead of a text
UnknownBranchRaises(n) ==
    Ended(Raised(Exception("ValueError", "Unknown tool: " \o n)), <<>>, <<>>)

\* the final return of the handler
UnknownBranch(n) == Ended(Returned(<<TextContent("Unknown tool: " \o n)>>), <<>>, <<>>)

\* the branch the if/elif chain on name takes
Branch(n) ==
    IF n = "scrape-polymarket" THEN "scrape"
    ELSE IF n = "get-news-headlines" THEN "headlines"
    ELSE IF n = "get-news-everything" THEN "everything"
    ELSE "unknown"

\* handle_call_tool(name, arguments) with the environment it runs in: the
\* API key, and what the outbound GET meets
handle_call_tool(n, args, key, pg, resp) ==
    CASE Branch(n) = "scrape"     -> ScrapeBranch(pg)
      [] Branch(n) = "headlines"  -> HeadlinesBranch(args, key, resp)
      [] Branch(n) = "everything" -> EverythingBranch(args, key, resp)
      [] OTHER                    -> UnknownBranch(n)

----------------------------------------------------------------------------
(* The environment: the tool calls the transport passes in, the process     *)
(* configuration, and what the two upstream services answer.               *)

\* NEWSAPI_KEY unset, set to the empty string, set to a key
ApiKeys == {PyNone, PyStr(""), PyStr("secret-key")}

NoPage == [fetch |-> "none", script |-> "absent", json |-> "malformed",
           missing |-> 0, events |-> <<>>]

\* a page that is fetched, holds the script element and valid JSON with
\* the whole path down to events
GoodPage(events) == [fetch |-> "ok", script |-> "present", json |-> "valid",
                     missing |-> 0, events |-> events]

\* the pages on which the extractor fails before it reaches the events
FailedPages ==
    { [NoPage EXCEPT !.fetch = "connection_error"],
      [NoPage EXCEPT !.fetch = "http_error"],
      [NoPage EXCEPT !.fetch = "ok", !.script = "absent"],
      [NoPage EXCEPT !.fetch = "ok", !.script = "no_string"],
      [NoPage EXCEPT !.fetch = "ok", !.script = "present", !.json = "malformed"] }
    \cup { [NoPage EXCEPT !.fetch = "ok", !.script = "present", !.json = "valid",
                          !.missing = i] : i \in 1..Len(EventsPath) }

\* d without key k
Without(d, k) == [x \in DOMAIN d \ {k} |-> d[x]]

YesNo == [outcomes |-> <<"Yes", "No">>, outcomePrices |-> <<"0.6", "0.4">>]

\* the i-th event of a page, of one of the shapes below
Event(i, shape) ==
    LET plain == [title |-> "Event " \o IntStr(i), slug |-> "event-" \o IntStr(i),
                  markets |-> <<YesNo>>]
    IN  CASE shape = "plain"         -> plain
          [] shape = "empty_markets" -> [plain EXCEPT !.markets = <<>>]
          [] shape = "no_markets"    -> Without(plain, "markets")
          [] shape = "no_title"      -> Without(plain, "title")
          [] shape = "no_slug"       -> Without(plain, "slug")
          [] shape = "short_prices"  ->
                [plain EXCEPT !.markets = <<[outcomes |-> <<"A", "B", "C">>,
                                             outcomePrices |-> <<"0.5", "0.3">>]>>]
          [] shape = "no_outcomes"   ->
                [plain EXCEPT !.markets = <<Without(YesNo, "outcomes"), YesNo>>]

EventShapes == {"empty_markets", "no_markets", "no_title", "no_slug",
                "short_prices", "no_outcomes"}

\* n events, plain but for the one at position at (none when at = 0)
Events(n, at, shape) ==
    [i \in 1..n |-> IF i = at THEN Event(i, shape) ELSE Event(i, "plain")]

\* the pages of up to MaxEvents events of which at most one is not plain
EventPages ==
    { GoodPage(Events(n, at, shape)) :
        n \in 0..MaxEvents, at \in 0..MaxEvents, shape \in EventShapes }

Pages == FailedPages \cup EventPages

\* every event of the page has a non-empty markets array
WellFormed(events) ==
    \A i \in 1..Len(events) : Get(events[i], "markets", <<>>) # <<>>

NoResponse == [net |-> "none", body |-> "", data |-> PyNone]

\* the body of a NewsAPI answer decodes to data
JsonBody(data) == [net |-> "ok", body |-> "json", data |-> data]

FullArticle ==
    PyDict([title |-> PyStr("T"), source |-> PyDict([name |-> PyStr("S")]),
            publishedAt |-> PyStr("2024-01-01"), url |-> PyStr("http://x")])

Articles ==
    { PyList(<<FullArticle>>),
      PyList(<<PyDict(EmptyDict)>>),
      PyList(<<FullArticle, PyDict([title |-> PyStr("U"), source |-> PyDict(EmptyDict)])>>),
      PyList(<<FullArticle, PyDict([title |-> PyStr("V"), source |-> PyNone])>>),
      PyList(<<PyStr("T"), FullArticle>>),
      PyList(<<>>),
      PyNone,
      PyStr("none"),
      PyInt(3) }

\* the decoded JSON values the formatter is given
NewsData ==
    { PyNone, PyList(<<>>), PyList(<<FullArticle>>), PyStr("Bad Gateway"), PyInt(0),
      PyDict(EmptyDict),
      PyDict([status |-> PyStr("error"), message |-> PyStr("rate limited")]),
      PyDict([status |-> PyStr("error"), code |-> PyStr("apiKeyInvalid")]),
      PyDict([message |-> PyStr("no status")]),
      PyDict([code |-> PyStr("x")]),
      PyDict([status |-> PyStr("error"), message |-> PyNone]),
      PyDict([status |-> PyNone, articles |-> PyList(<<FullArticle>>)]),
      PyDict([status |-> PyStr("OK"), articles |-> PyList(<<FullArticle>>)]),
      PyDict([status |-> PyStr("ok")]) }
    \cup { PyDict([status |-> PyStr("ok"), articles |-> a]) : a \in Articles }

NewsResponses ==
    { [NoResponse EXCEPT !.net = "connect_error"],
      [NoResponse EXCEPT !.net = "ok", !.body = "not_json"] }
    \cup { JsonBody(d) : d \in NewsData }

\* d with key k set to the value of option o, <<>> when the caller omits k
Opt(d, k, o) == IF o = <<>> THEN d ELSE Put(d, k, o[1])

ScrapeArguments == {PyNone, PyDict(EmptyDict)}

HeadlinesArguments ==
    {PyNone} \cup
    { PyDict(Opt(Opt(Opt(EmptyDict, "query", q), "language", l), "pageSize", s)) :
        q \in {<<>>, <<PyStr("bitcoin")>>},
        l \in {<<>>, <<PyStr("fr")>>},
        s \in {<<>>, <<PyInt(10)>>} }

EverythingArguments ==
    {PyNone} \cup
    { PyDict(Opt(Opt(Opt(Opt(Opt(Opt(EmptyDict, "query", q), "sortBy", o),
                         "pageSize", s), "page", g), "from", f), "to", t)) :
        q \in {<<>>, <<PyStr("bitcoin")>>},
        o \in {<<>>, <<PyStr("relevancy")>>},
        s \in {<<>>, <<PyInt(10)>>},
        g \in {<<>>, <<PyInt(2)>>},
        f \in {<<>>, <<PyStr("")>>, <<PyNone>>, <<PyStr("2024-01-01")>>},
        t \in {<<>>, <<PyStr("")>>, <<PyStr("2024-02-01")>>} }

\* names that list_tools does not declare
OtherNames == {"not-a-tool", "", "scrape_polymarket", "Get-News-Headlines",
               "get-news-everything "}

OtherArguments == {PyNone, PyDict(EmptyDict), PyDict([query |-> PyStr("bitcoin")])}

----------------------------------------------------------------------------
(* The server: one request is served to completion, then the next. *)

Init ==
    /\ api_key \in ApiKeys
    /\ pc = "idle"
    /\ request = "none"
    /\ name = ""
    /\ arguments = PyNone
    /\ outcome = "none"
    /\ result = <<>>
    /\ exc = NoException
    /\ results = <<>>
    /\ http = <<>>
    /\ page = NoPage
    /\ response = NoResponse

\* the transport calls list_tools()
ListTools ==
    /\ pc = "idle"
    /\ pc' = "done"
    /\ request' = "list_tools"
    /\ outcome' = "returned"
    /\ result' = list_tools
    /\ UNCHANGED <<api_key, name, arguments, exc, results, http, page, response>>

\* handle_call_tool(n, args) runs to its end, meeting pg or resp on its
\* outbound request
CallTool(n, args, pg, resp) ==
    LET e == handle_call_tool(n, args, api_key, pg, resp)
    IN  /\ pc' = "done"
        /\ request' = "call_tool"
        /\ name' = n
        /\ arguments' = args
        /\ page' = pg
        /\ response' = resp
        /\ outcome' = IF e.raised THEN "raised" ELSE "returned"
        /\ result' = e.value
        /\ exc' = e.exc
        /\ results' = e.results
        /\ http' = e.http
        /\ UNCHANGED api_key

\* the transport calls the handler for scrape-polymarket
CallScrapePolymarket ==
    /\ pc = "idle"
    /\ \E args \in ScrapeArguments, pg \in Pages :
          CallTool("scrape-polymarket", args, pg, NoResponse)

\* the transport calls the handler for get-news-headlines
CallGetNewsHeadlines ==
    /\ pc = "idle"
    /\ \E args \in HeadlinesArguments, resp \in NewsResponses :
          CallTool("get-news-headlines", args, NoPage, resp)

\* the transport calls the handler for get-news-everything
CallGetNewsEverything ==
    /\ pc = "idle"
    /\ \E args \in EverythingArguments, resp \in NewsResponses :
          CallTool("get-news-everything", args, NoPage, resp)

\* the transport calls the handler with a name list_tools does not declare
CallOtherName ==
    /\ pc = "idle"
    /\ \E n \in OtherNames, args \in OtherArguments :
          \E pg \in {NoPage, GoodPage(Events(1, 0, "no_title"))},
             resp \in {NoResponse, JsonBody(PyDict([status |-> PyStr("ok")]))} :
              CallTool(n, args, pg, resp)

\* the transport sends the answer (or the error) and the invocation's
\* values are dropped: nothing outlives the call
Respond ==
    /\ pc = "done"
    /\ pc' = "idle"
    /\ request' = "none"
    /\ name' = ""
    /\ arguments' = PyNone
    /\ outcome' = "none"
    /\ result' = <<>>
    /\ exc' = NoException
    /\ results' = <<>>
    /\ http' = <<>>
    /\ page' = NoPage
    /\ response' = NoResponse
    /\ UNCHANGED api_key

Next ==
    \/ ListTools
    \/ CallScrapePolymarket
    \/ CallGetNewsHeadlines
    \/ CallGetNewsEverything
    \/ CallOtherName
    \/ Respond

Spec == Init /\ [][Next]_vars

----------------------------------------------------------------------------
(* Vocabulary of the properties. *)

\* s begins with prefix
HasPrefix(s, prefix) ==
    Len(s) >= Len(prefix) /\ SubSeq(s, 1, Len(prefix)) = prefix

\* a call of handle_call_tool has ended
Called == pc = "done" /\ request = "call_tool"

\* the handler returned exactly one text item
OneText == outcome = "returned" /\ Len(result) = 1 /\ result[1].type = "text"

\* the names list_tools declares, in order
DeclaredNames == [i \in 1..Len(list_tools) |-> list_tools[i].name]

DeclaredSet == {DeclaredNames[i] : i \in 1..Len(DeclaredNames)}

NewsTools == {"get-news-headlines", "get-news-everything"}

ScrapeError == "Error scraping Polymarket: "

\* the page is fetched and parsed down to its events
Parsed == /\ page.fetch = "ok" /\ page.script = "present"
          /\ page.json = "valid" /\ page.missing = 0

\* the events the extractor may look at
Capped == SubSeq(page.events, 1, Min(Len(page.events), MaxMarkets))

----------------------------------------------------------------------------
(* C1 *)

\* C1: every call of handle_call_tool, whatever the tool, the arguments,
\* the API key and the upstream outcome, ends by returning a list that
\* holds a text item; no call ends with an exception leaving the handler.
C1_NeverRaises ==
    Called => /\ outcome = "returned"
              /\ Len(result) >= 1
              /\ result[1].type = "text"

----------------------------------------------------------------------------
(* C2 *)

\* the extractor fails in one of the ways the claim lists
ListedFailure ==
    \/ page.fetch \in {"connection_error", "http_error"}
    \/ page.fetch = "ok" /\ page.script # "present"
    \/ page.fetch = "ok" /\ page.script = "present" /\ page.json = "malformed"
    \/ page.fetch = "ok" /\ page.script = "present" /\ page.json = "valid"
         /\ page.missing # 0

\* the extraction succeeds: scrape_polymarket returns its results
Extracted == Parsed /\ WellFormed(Capped)

\* C2: a scrape-polymarket call whose extractor fails (fetch failure,
\* missing script element, malformed JSON, absent path segment) returns
\* exactly one text item that begins with "Error scraping Polymarket: " and
\* never raises; a successful extraction never yields a text with that
\* prefix.
C2_ScrapeFailureIsText ==
    (Called /\ name = "scrape-polymarket") =>
        /\ ListedFailure => OneText /\ HasPrefix(result[1].text, ScrapeError)
        /\ Extracted => OneText /\ ~HasPrefix(result[1].text, ScrapeError)

\* a scrape call met a page whose JSON lacks a path segment and answered
\* with the error text
C2_Witness ==
    /\ Called /\ name = "scrape-polymarket"
    /\ page.fetch = "ok" /\ page.script = "present" /\ page.json = "valid"
    /\ page.missing = 4
    /\ OneText
    /\ result[1].text = "Error scraping Polymarket: 'queries'"

----------------------------------------------------------------------------
(* C3 *)

\* C3: a call with a name that is none of the three declared names, with
\* any argument map or none, returns exactly one text item whose text is
\* "Unknown tool: " followed by the name, issues no outbound request and
\* does not raise.
C3_UnknownTool ==
    (Called /\ name \notin DeclaredSet) =>
        /\ OneText
        /\ result[1].text = "Unknown tool: " \o name
        /\ http = <<>>

\* an undeclared name was called with no argument map
C3_Witness ==
    /\ Called /\ name = "not-a-tool" /\ arguments = PyNone
    /\ OneText /\ result[1].text = "Unknown tool: not-a-tool"

----------------------------------------------------------------------------
(* C4 *)

\* the call fell through to the final return of the handler
FellThrough == OneText /\ result[1].text = "Unknown tool: " \o name /\ http = <<>>

\* C4: the names the dispatcher routes to an implementation (those that do
\* not fall through to the "Unknown tool" answer) are exactly the names
\* list_tools returns, which are scrape-polymarket, get-news-headlines and
\* get-news-everything in that order, pairwise distinct.
C4_RegistryMatchesDispatcher ==
    /\ Called => (~FellThrough <=> name \in DeclaredSet)
    /\ (pc = "done" /\ request = "list_tools") =>
          /\ [i \in 1..Len(result) |-> result[i].name]
                = <<"scrape-polymarket", "get-news-headlines", "get-news-everything">>
          /\ Cardinality({result[i].name : i \in 1..Len(result)}) = Len(result)

\* a declared name was routed to its implementation, which issued a request
C4_Witness ==
    /\ Called /\ name = "get-news-everything" /\ ~FellThrough /\ Len(http) = 1

----------------------------------------------------------------------------
(* C5 *)

\* a news tool got a JSON answer and returned what the formatter made of it
Formatted ==
    /\ Called /\ name \in NewsTools /\ OneText
    /\ http # <<>> /\ response.net = "ok" /\ response.body = "json"

NoData == "No news data available."

\* rules (2), (3) and (4) of the formatter's policy for a mapping d to which
\* rule (1) does not apply, t being the text returned
LaterRules(d, t) ==
    /\ Get(d.v, "status", PyNone) # PyStr("ok")
          => t = "NewsAPI error: " \o Str(Get(d.v, "message", PyStr("Unknown error")))
    /\ ( /\ Get(d.v, "status", PyNone) = PyStr("ok")
         /\ Get(d.v, "articles", PyList(<<>>)) = PyList(<<>>) )
          => t = "No news articles found."
    /\ HasPrefix(t, "Top News Headlines:")
          => /\ Get(d.v, "status", PyNone) = PyStr("ok")
             /\ "articles" \in DOMAIN d.v
             /\ Truthy(d.v["articles"])

\* C5 as claimed: (1) only a null or non-mapping input yields "No news data
\* available."; (2) every mapping whose status is not "ok", a mapping with
\* no status field included, yields "NewsAPI error: " + message (default
\* "Unknown error"); (3) status "ok" with an empty or absent articles
\* sequence yields "No news articles found."; (4) only otherwise is the
\* listing produced.
C5_Policy_AsClaimed ==
    Formatted =>
        LET d == response.data
            t == result[1].text
        IN  /\ (t = NoData) <=> (d.kind # "dict")
            /\ d.kind = "dict" => LaterRules(d, t)

\* C5 as amended: (1) only a null, non-mapping or empty-mapping input
\* yields "No news data available."; (2) every non-empty mapping whose
\* status is not "ok" yields "NewsAPI error: " + message (default "Unknown
\* error"); (3) and (4) as claimed.
C5_Policy ==
    Formatted =>
        LET d == response.data
            t == result[1].text
        IN  /\ (t = NoData) <=> (d.kind # "dict" \/ DOMAIN d.v = {})
            /\ (d.kind = "dict" /\ DOMAIN d.v # {}) => LaterRules(d, t)

\* the formatter was given the empty mapping and answered by rule (1)
C5_Witness ==
    /\ Formatted
    /\ response.data = PyDict(EmptyDict)
    /\ result[1].text = NoData

----------------------------------------------------------------------------
(* C6 *)

\* C6: for a well-formed page with N events, each with a non-empty markets
\* array, scrape_polymarket returns exactly min(N, 20) summaries and the
\* i-th summary carries the title and the slug-derived URL of the i-th
\* event: order is kept and no event beyond the 20th appears.
C6_CapAndOrder ==
    (Called /\ name = "scrape-polymarket" /\ Parsed /\ WellFormed(page.events)) =>
        /\ OneText
        /\ Len(results) = Min(Len(page.events), 20)
        /\ \A i \in 1..Len(results) :
              /\ results[i].title = Get(page.events[i], "title", "")
              /\ results[i].url = "https://polymarket.com/market/"
                                    \o Get(page.events[i], "slug", "")

\* a well-formed page with more than 20 events was scraped down to 20
C6_Witness ==
    /\ Called /\ name = "scrape-polymarket" /\ Parsed /\ WellFormed(page.events)
    /\ Len(page.events) = 22
    /\ Len(results) = 20
    /\ results[20].title = "Event 20"

----------------------------------------------------------------------------
(* C7 *)

\* C7: when one of the first 20 events has an empty or absent markets
\* array, the other events with non-empty markets arrays are still returned
\* as summaries and the call does not answer "Error scraping Polymarket".
C7_EmptyMarketsHandled ==
    ( /\ Called /\ name = "scrape-polymarket" /\ Parsed
      /\ \E i \in 1..Len(Capped) : Get(Capped[i], "markets", <<>>) = <<>> ) =>
        /\ OneText
        /\ ~HasPrefix(result[1].text, ScrapeError)
        /\ \A i \in 1..Len(Capped) :
              Get(Capped[i], "markets", <<>>) # <<>> =>
                  \E j \in 1..Len(results) :
                      results[j].title = Get(Capped[i], "title", "")

----------------------------------------------------------------------------
(* C8 *)

\* C8: a call of either news tool while the API key is absent from the
\* configuration returns the missing-key text as a normal result, does not
\* raise and issues no outbound request.
C8_MissingKeyCaught ==
    (Called /\ name \in NewsTools /\ api_key = PyNone) =>
        /\ OneText
        /\ result[1].text = "Missing NEWSAPI_KEY in environment."
        /\ http = <<>>

----------------------------------------------------------------------------
(* C9 *)

\* get-news-everything issued its outbound request
Requested == Called /\ name = "get-news-everything" /\ http # <<>>

\* an argument passed as null or as the empty string holds no value
EmptyValues == {PyNone, PyStr("")}

\* C9: the parameters of the get-news-everything request hold from (resp.
\* to) exactly when the arguments hold a non-empty from (resp. to), and then
\* with that value; neither is ever sent as an empty string; q, apiKey,
\* sortBy, pageSize and page are always present.
C9_ConditionalDates ==
    Requested =>
        LET params == http[1].params
        IN  /\ Len(http) = 1
            /\ {"q", "apiKey", "sortBy", "pageSize", "page"} \subseteq DOMAIN params
            /\ \A k \in {"from", "to"} :
                  /\ k \in DOMAIN params
                       <=> (k \in DOMAIN arguments.v /\ arguments.v[k] \notin EmptyValues)
                  /\ k \in DOMAIN params
                       => (params[k] = arguments.v[k] /\ params[k] # PyStr(""))

\* a request went out for arguments with a from date and an empty to
C9_Witness ==
    /\ Requested
    /\ "from" \in DOMAIN arguments.v /\ arguments.v["from"] = PyStr("2024-01-01")
    /\ "to" \in DOMAIN arguments.v /\ arguments.v["to"] = PyStr("")
    /\ "from" \in DOMAIN http[1].params
    /\ "to" \notin DOMAIN http[1].params

----------------------------------------------------------------------------
(* C10 *)

\* the input schema list_tools declares for tool n
Schema(n) ==
    list_tools[CHOOSE i \in 1..Len(list_tools) : list_tools[i].name = n].inputSchema

\* C10: for each news tool and each parameter whose schema declares a
\* default, a request for arguments that omit the parameter carries the
\* declared default for it.
C10_DefaultsAgree ==
    (Called /\ name \in NewsTools /\ http # <<>>) =>
        \A k \in DOMAIN Schema(name).defaults :
            k \notin DOMAIN arguments.v =>
                /\ k \in DOMAIN http[1].params
                /\ http[1].params[k] = Schema(name).defaults[k]

====
